---- MODULE Spec2Model ----
(***************************************************************************)
(* A model of the derivation primitives of libexpr/primops.cc: the hash    *)
(* of a derivation modulo fixed-output derivations, the derivation         *)
(* constructor (derivation!), import, toString and the path primitives.    *)
(*                                                                         *)
(* Representation.  A text is a tagged tuple: Lit(s) for a literal string, *)
(* or a store path.  A store path is a tagged tuple as well:               *)
(*   <<"drv", name, term>>         a derivation file (name ends in .drv)   *)
(*   <<"output:out", hash, name>>  an output path made by makeStorePath    *)
(*   <<"src", name>>               a source path                           *)
(* A string context element is <<prefix, path>>, prefix one of "", "=",    *)
(* "~" (the first character of the element in the source).  A hash is      *)
(* <<"sha256:s", parts>> (hashString), <<"sha256:t", term>> (hashTerm),    *)
(* <<"parsed", type, hex>> (parseHash) or <<"unknown">> (Hash()).  The     *)
(* hash functions are collision free in the model.                         *)
(***************************************************************************)
EXTENDS Naturals, Sequences, FiniteSets, TLC

VARIABLES store, drvHashes, readOnlyMode, results, last, heap, evals, haveWarned,
          warnings

vars ==
    <<store, drvHashes, readOnlyMode, results, last, heap, evals, haveWarned, warnings>>

-----------------------------------------------------------------------------
(* Bounds *)

MaxDrvs == 2

MaxCtx == 3

-----------------------------------------------------------------------------
(* Texts, string values, hashes and store paths *)

Lit(s) == <<"lit", s>>

mkString(text, context) == [text |-> text, context |-> context]

drvExtension == ".drv"

htUnknown == <<"unknown">>

hashString(parts) == <<"sha256:s", parts>>

hashTerm(term) == <<"sha256:t", term>>

printHash(h) == IF h[1] = "parsed" THEN h[3] ELSE <<"hex", h>>

parseHashType(s) == IF s \in {"md5", "sha1", "sha256"} THEN s ELSE "unknown"

hashSize(ht) == CASE ht = "md5" -> 16 [] ht = "sha1" -> 20 [] OTHER -> 32

hashLength32(ht) == ((hashSize(ht) * 8 - 1) \div 5) + 1

HexZero == "0000000000000000000000000000000000000000000000000000000000000000"

Base32Zero == "0000000000000000000000000000000000000000000000000000"

parseHash(ht, s) == <<"parsed", ht, s>>

parseHash32(ht, s) == <<"parsed", ht, IF s = Base32Zero THEN HexZero ELSE s>>

makeStorePath(type, hash, name) == <<type, hash, name>>

makeFixedOutputPath(recursive, ht, h, name) ==
    makeStorePath("output:out",
        hashString(<<"fixed:out:", (IF recursive THEN "r:" ELSE "") \o ht, ":",
                     printHash(h), ":">>),
        name)

isDerivation(path) == path[1] = "drv"

isStorePath(ref) == ref[1] = "" /\ ref[2][1] \in {"drv", "output:out", "src"}

DerivationOutput(path, hashAlgo, hash) ==
    [path |-> path, hashAlgo |-> hashAlgo, hash |-> hash]

unparseDerivation(drv) ==
    <<"Derive",
      {<<o, drv.outputs[o].path, drv.outputs[o].hashAlgo, drv.outputs[o].hash>> :
          o \in DOMAIN drv.outputs},
      {<<i, drv.inputDrvs[i]>> : i \in DOMAIN drv.inputDrvs},
      drv.inputSrcs, drv.platform, drv.builder, drv.args,
      {<<k, drv.env[k]>> : k \in DOMAIN drv.env}>>

-----------------------------------------------------------------------------
(* The store collaborator *)

EmptyMap == [x \in {} |-> {}]

\* derivationFromPath: the derivation written under a path.
derivationFromPath(st, path) == st[path]

\* References of a valid path: a derivation file refers to its inputs.
queryReferences(st, path) ==
    IF path \in DOMAIN st
    THEN st[path].inputSrcs \cup DOMAIN st[path].inputDrvs
    ELSE {}

RECURSIVE closureFrom(_, _, _)
closureFrom(st, todo, done) ==
    IF todo = {} THEN done
    ELSE LET p == CHOOSE q \in todo : TRUE
         IN  closureFrom(st, (todo \cup queryReferences(st, p)) \ (done \cup {p}),
                         done \cup {p})

computeFSClosure(st, path) == closureFrom(st, {path}, {})

isValidPath(st, path) == path \in DOMAIN st \/ path[1] = "src"

\* writeDerivation: the path of the derivation file is a function of its
\* name and contents; nothing is written in read-only mode.
drvPathOf(drv, name) == <<"drv", name \o drvExtension, unparseDerivation(drv)>>

writeDerivation(st, ro, drv, name) ==
    IF ro THEN st ELSE (drvPathOf(drv, name) :> drv) @@ st

-----------------------------------------------------------------------------
(* hashDerivationModulo *)

isFixedOutput_noFixed(drv) == FALSE

isFixedOutput(drv) ==
    /\ Cardinality(DOMAIN drv.outputs) = 1
    /\ "out" \in DOMAIN drv.outputs
    /\ drv.outputs["out"].hash # ""

fixedHash_withBuilder(drv) ==
    hashString(<<"fixed:out:", drv.outputs["out"].hashAlgo, ":",
                 drv.outputs["out"].hash, ":", drv.builder>>)

\* The hash returned for a fixed-output derivation (lines 243-247).
fixedHash(drv) ==
    hashString(<<"fixed:out:", drv.outputs["out"].hashAlgo, ":",
                 drv.outputs["out"].hash, ":", drv.outputs["out"].path>>)

\* state.drvHashes[p]: operator[] default-constructs a missing entry.
cacheLookup(cache, p) == IF p \in DOMAIN cache THEN cache[p] ELSE htUnknown

cacheInsertDefault(cache, p) ==
    IF p \in DOMAIN cache THEN cache ELSE (p :> htUnknown) @@ cache

cacheStore_drop(cache, p, h) == cache

cacheStore(cache, p, h) == (p :> h) @@ cache

putInput_drop(inputs2, h, outs) == inputs2

\* Line 260: inputs2[printHash(h)] = i->second.
putInput(inputs2, h, outs) == (printHash(h) :> outs) @@ inputs2

\* The result of a call: the hash, the cache afterwards, the derivation
\* files loaded from the store, the cache keys looked up, and whether a
\* load failed (the exception of derivationFromPath).
RECURSIVE hashDerivationModulo(_, _, _)
RECURSIVE hashInputs(_, _, _, _)

hashInputs(drv, todo, acc, st) ==
    IF todo = {} \/ acc.failed THEN acc
    ELSE LET i  == CHOOSE q \in todo : TRUE
             h0 == cacheLookup(acc.cache, i)
             c0 == cacheInsertDefault(acc.cache, i)
         IN  IF h0 # htUnknown
             THEN hashInputs(drv, todo \ {i},
                      [acc EXCEPT !.inputs2 = putInput(@, h0, drv.inputDrvs[i]),
                                  !.cache = c0,
                                  !.lookups = @ \cup {i}], st)
             ELSE IF i \notin DOMAIN st
             THEN [acc EXCEPT !.cache = c0, !.lookups = @ \cup {i}, !.failed = TRUE]
             ELSE LET r == hashDerivationModulo(derivationFromPath(st, i), c0, st)
                  IN  IF r.failed
                      THEN [acc EXCEPT !.cache = r.cache,
                                       !.lookups = @ \cup {i} \cup r.lookups,
                                       !.loads = @ \cup {i} \cup r.loads,
                                       !.failed = TRUE]
                      ELSE hashInputs(drv, todo \ {i},
                              [acc EXCEPT !.inputs2 = putInput(@, r.h, drv.inputDrvs[i]),
                                          !.cache = cacheStore(r.cache, i, r.h),
                                          !.lookups = @ \cup {i} \cup r.lookups,
                                          !.loads = @ \cup {i} \cup r.loads], st)

\* Line 264: the hash of the derivation with its inputs rewritten.
hashRewritten(drv, acc) ==
    [h |-> IF acc.failed THEN htUnknown
           ELSE hashTerm(unparseDerivation([drv EXCEPT !.inputDrvs = acc.inputs2])),
     cache |-> acc.cache, loads |-> acc.loads, lookups |-> acc.lookups,
     failed |-> acc.failed]

hashDerivationModulo(drv, cache, st) ==
    IF isFixedOutput(drv)
    THEN [h |-> fixedHash(drv), cache |-> cache, loads |-> {}, lookups |-> {},
          failed |-> FALSE]
    ELSE hashRewritten(drv,
             hashInputs(drv, DOMAIN drv.inputDrvs,
                        [inputs2 |-> EmptyMap, cache |-> cache, loads |-> {},
                         lookups |-> {}, failed |-> FALSE], st))

-----------------------------------------------------------------------------
(* Values and coercions *)

vString(text, context) ==
    [type |-> "string", text |-> text, context |-> context, elems |-> <<>>]

vList(elems) ==
    [type |-> "list", text |-> Lit(""), context |-> {}, elems |-> elems]

\* coerceToString on a string value: its text, its context added to the
\* caller's context set.
coerceToString(v) == mkString(v.text, v.context)

\* coerceToPath(v, context): the text of the value, the context handed back
\* to the caller (prim_import iterates over it; pathExists, readFile and
\* filterSource test it for emptiness themselves).
coerceToPath(v) == coerceToString(v)

EvalError(msg) == [kind |-> "EvalError", msg |-> msg, prefixes |-> <<>>]

Error(msg) == [kind |-> "Error", msg |-> msg, prefixes |-> <<>>]

addPrefix(e, p) == [e EXCEPT !.prefixes = <<p>> \o @]

NoError == [kind |-> "none", msg |-> "", prefixes |-> <<>>]

-----------------------------------------------------------------------------
(* prim_derivationStrict *)

\* The attribute loop (lines 305-356): every attribute but args goes to the
\* environment; the contexts of all values are collected.
attrText(attrs, key) ==
    IF key \in DOMAIN attrs THEN coerceToString(attrs[key]).text ELSE Lit("")

attrsContext(attrs) ==
    UNION ({coerceToString(attrs[k]).context : k \in DOMAIN attrs \ {"args"}}
           \cup (IF "args" \in DOMAIN attrs
                 THEN {coerceToString(attrs["args"].elems[n]).context :
                          n \in DOMAIN attrs["args"].elems}
                 ELSE {}))

attrsEnv(attrs) ==
    [k \in DOMAIN attrs \ {"args"} |-> coerceToString(attrs[k]).text]

attrsArgs(attrs) ==
    IF "args" \in DOMAIN attrs
    THEN [n \in DOMAIN attrs["args"].elems |->
             coerceToString(attrs["args"].elems[n]).text]
    ELSE <<>>

invalidHashMode(attrs) ==
    /\ "outputHashMode" \in DOMAIN attrs
    /\ attrText(attrs, "outputHashMode") \notin {Lit("recursive"), Lit("flat")}

outputHashRecursive(attrs) == attrText(attrs, "outputHashMode") = Lit("recursive")

\* The partition of the context (lines 361-395).
closureRefs(st, context) ==
    UNION {computeFSClosure(st, r[2]) : r \in {q \in context : q[1] = "="}}

partitionSrcs_plainOnly(st, context) ==
    {r[2] : r \in {q \in context : q[1] \in {"", "="} /\ ~isDerivation(q[2])}}

partitionSrcs(st, context) ==
    closureRefs(st, context)
    \cup {r[2] : r \in {q \in context : q[1] = "~"}}
    \cup {r[2] : r \in {q \in context : q[1] \in {"", "="} /\ ~isDerivation(q[2])}}

partitionDrvs_plainOnly(st, context) ==
    {r[2] : r \in {q \in context : q[1] \in {"", "="} /\ isDerivation(q[2])}}

partitionDrvs(st, context) ==
    {p \in closureRefs(st, context) : isDerivation(p)}
    \cup {r[2] : r \in {q \in context : q[1] \in {"", "="} /\ isDerivation(q[2])}}

closureFails(st, context) ==
    \E r \in context : r[1] = "=" /\ ~isValidPath(st, r[2])

\* The value returned on success (lines 463-469).
outAttrs_outPathContext(outPath, drvPath) ==
    [outPath |-> mkString(outPath, {<<"", outPath>>}),
     drvPath |-> mkString(drvPath, {<<"=", drvPath>>})]

outAttrs(outPath, drvPath) ==
    [outPath |-> mkString(outPath, {<<"", drvPath>>}),
     drvPath |-> mkString(drvPath, {<<"=", drvPath>>})]

NoPath == Lit("")

failed(e, st, cache) ==
    [status |-> "error", err |-> e, store |-> st, cache |-> cache,
     wrote |-> FALSE, hashed |-> FALSE]

\* Line 419.
wrongLengthError(outputHash, outputHashAlgo) ==
    Error("hash has wrong length for hash type")

\* Lines 403-425: the outcome of checking outputHash.
checkOutputHash(attrs, drvName) ==
    LET outputHash == attrText(attrs, "outputHash")[2]
        outputHashAlgo == attrText(attrs, "outputHashAlgo")[2]
        ht == parseHashType(outputHashAlgo)
        rec == outputHashRecursive(attrs)
    IN  IF outputHash = ""
        THEN [ok |-> TRUE, err |-> NoError, outPath |-> NoPath,
              outputHash |-> "", outputHashAlgo |-> ""]
        ELSE IF ht = "unknown"
        THEN [ok |-> FALSE, err |-> EvalError("unknown hash algorithm"),
              outPath |-> NoPath, outputHash |-> "", outputHashAlgo |-> ""]
        ELSE IF Len(outputHash) = hashSize(ht) * 2
        THEN [ok |-> TRUE, err |-> NoError,
              outPath |-> makeFixedOutputPath(rec, ht, parseHash(ht, outputHash), drvName),
              outputHash |-> printHash(parseHash(ht, outputHash)),
              outputHashAlgo |-> (IF rec THEN "r:" ELSE "") \o outputHashAlgo]
        ELSE IF Len(outputHash) = hashLength32(ht)
        THEN [ok |-> TRUE, err |-> NoError,
              outPath |-> makeFixedOutputPath(rec, ht, parseHash32(ht, outputHash), drvName),
              outputHash |-> printHash(parseHash32(ht, outputHash)),
              outputHashAlgo |-> (IF rec THEN "r:" ELSE "") \o outputHashAlgo]
        ELSE [ok |-> FALSE, err |-> wrongLengthError(outputHash, outputHashAlgo),
              outPath |-> NoPath, outputHash |-> "", outputHashAlgo |-> ""]

registeredDrv_masked(masked, drv) == masked

\* Line 460: the derivation whose hash is put in drvHashes is the final one.
registeredDrv(masked, drv) == drv

\* Lines 438-439: the derivation with its output path left empty.
maskedDrv(drv0, chk) ==
    [drv0 EXCEPT
        !.env = ("out" :> Lit("")) @@ @,
        !.outputs = ("out" :> DerivationOutput(NoPath, chk.outputHashAlgo,
                                               chk.outputHash))]

\* Lines 447-449: the derivation with its output path filled in.
finalDrv(masked, chk, outPath) ==
    [masked EXCEPT
        !.env = ("out" :> outPath) @@ @,
        !.outputs = ("out" :> DerivationOutput(outPath, chk.outputHashAlgo,
                                               chk.outputHash))]

\* Lines 463-469: the outcome of a call that got through; r1 is the hashing
\* of the masked derivation, r2 the hashing for drvHashes, st1 the store
\* after writeDerivation.
instantiated(masked, drv, chk, drvName, st1, r1, r2) ==
    IF r2.failed
    THEN [failed(Error("error opening derivation file"), st1, r2.cache)
             EXCEPT !.hashed = TRUE, !.wrote = TRUE]
    ELSE [status |-> "ok", err |-> NoError,
          store |-> st1,
          cache |-> cacheStore(r2.cache, drvPathOf(drv, drvName), r2.h),
          wrote |-> TRUE, hashed |-> TRUE,
          masked |-> masked, drv |-> drv,
          outPath |-> drv.outputs["out"].path,
          drvPath |-> drvPathOf(drv, drvName),
          usedModulo |-> (chk.outPath = NoPath),
          hMasked |-> [h |-> r1.h, loads |-> r1.loads, lookups |-> r1.lookups],
          hFinal |-> [h |-> r2.h, loads |-> r2.loads, lookups |-> r2.lookups,
                      cacheBefore |-> r1.cache, cacheAfter |-> r2.cache],
          value |-> outAttrs(drv.outputs["out"].path, drvPathOf(drv, drvName))]

\* Lines 452-460: the derivation is written, then hashed for drvHashes.
writeAndRegister(masked, drv, chk, drvName, st, ro, r1) ==
    instantiated(masked, drv, chk, drvName, writeDerivation(st, ro, drv, drvName), r1,
                 hashDerivationModulo(registeredDrv(masked, drv), r1.cache,
                                      writeDerivation(st, ro, drv, drvName)))

\* Lines 441-449: the output path, from the hash of the masked derivation
\* unless the output is fixed.
assignOutPath(masked, chk, drvName, st, ro, r1) ==
    IF r1.failed
    THEN [failed(Error("error opening derivation file"), st, r1.cache)
             EXCEPT !.hashed = TRUE]
    ELSE writeAndRegister(masked,
             finalDrv(masked, chk,
                      IF chk.outPath = NoPath
                      THEN makeStorePath("output:out", r1.h, drvName)
                      ELSE chk.outPath),
             chk, drvName, st, ro, r1)

instantiate_alwaysModulo(drv0, chk, drvName, st, cache, ro) ==
    assignOutPath(maskedDrv(drv0, chk), [chk EXCEPT !.outPath = NoPath], drvName, st, ro,
        hashDerivationModulo(maskedDrv(drv0, chk), cache, st))

\* Lines 433-469: hashing, writing and the result, for a checked derivation.
instantiate(drv0, chk, drvName, st, cache, ro) ==
    assignOutPath(maskedDrv(drv0, chk), chk, drvName, st, ro,
        IF chk.outPath = NoPath
        THEN hashDerivationModulo(maskedDrv(drv0, chk), cache, st)
        ELSE [h |-> htUnknown, cache |-> cache, loads |-> {}, lookups |-> {},
              failed |-> FALSE])

missingBuilder_never(drv) == FALSE

\* Lines 398-401.
missingBuilder(drv) == drv.builder = Lit("")

missingSystem(drv) == drv.platform = Lit("")

\* isDerivation(drvName), line 429: the name ends in the extension.
nameIsDerivation(name) == \E b \in {"foo", "bar"} : name = b \o drvExtension

derivationStrict(attrs, st, cache, ro) ==
    IF "name" \notin DOMAIN attrs
    THEN failed(EvalError("required attribute `name' missing"), st, cache)
    ELSE
    LET drvName == attrText(attrs, "name")[2]
        context == attrsContext(attrs)
        drv0 == [outputs |-> EmptyMap,
                 inputDrvs |-> [p \in partitionDrvs(st, context) |-> {"out"}],
                 inputSrcs |-> partitionSrcs(st, context),
                 platform |-> attrText(attrs, "system"),
                 builder |-> attrText(attrs, "builder"),
                 args |-> attrsArgs(attrs),
                 env |-> attrsEnv(attrs)]
        chk == checkOutputHash(attrs, drvName)
    IN  IF invalidHashMode(attrs)
        THEN failed(addPrefix(addPrefix(
                        EvalError("invalid value for `outputHashMode' attribute"),
                        "while evaluating the derivation attribute"),
                        "while instantiating the derivation"), st, cache)
        ELSE IF closureFails(st, context)
        THEN failed(Error("path is not valid"), st, cache)
        ELSE IF missingBuilder(drv0)
        THEN failed(EvalError("required attribute `builder' missing"), st, cache)
        ELSE IF missingSystem(drv0)
        THEN failed(EvalError("required attribute `system' missing"), st, cache)
        ELSE IF ~chk.ok
        THEN failed(chk.err, st, cache)
        ELSE IF nameIsDerivation(drvName)
        THEN failed(EvalError("derivation names are not allowed to end in .drv"),
                    st, cache)
        ELSE instantiate(drv0, chk, drvName, st, cache, ro)

-----------------------------------------------------------------------------
(* prim_toString, prim_import, prim_pathExists, prim_readFile *)

\* Line 944: the string is made from the text alone.
prim_toString(v) == mkString(coerceToString(v).text, {})

\* A context element as the store sees it: isValidPath is asked about the
\* element as it stands, and an element with a prefix names no path.
refIsValid(st, ref) == ref[1] = "" /\ isValidPath(st, ref[2])

importAbort(acc) ==
    [acc EXCEPT !.status = "abort",
                !.err = [kind |-> "AssertionFailure", msg |-> "isStorePath(*i)",
                         prefixes |-> <<>>]]

\* The loop of prim_import over the context (lines 35-42), in the order
\* `order'; a build either succeeds (buildOk) or throws; the assertion is
\* compiled in or not (asserts).
RECURSIVE importLoop(_, _, _, _, _)
importLoop(order, st, buildOk, asserts, acc) ==
    IF order = <<>> THEN acc
    ELSE IF asserts /\ ~isStorePath(Head(order))
    THEN importAbort(acc)
    ELSE IF ~refIsValid(st, Head(order))
    THEN [acc EXCEPT !.status = "error", !.checked = @ \cup {Head(order)[2]},
                     !.err = EvalError("cannot import, since path is not valid")]
    ELSE IF isDerivation(Head(order)[2]) /\ ~buildOk
    THEN [acc EXCEPT !.status = "error", !.checked = @ \cup {Head(order)[2]},
                     !.requested = @ \cup {Head(order)[2]},
                     !.err = Error("build failed")]
    ELSE importLoop(Tail(order), st, buildOk, asserts,
             [acc EXCEPT !.checked = @ \cup {Head(order)[2]},
                         !.requested = @ \cup (IF isDerivation(Head(order)[2])
                                               THEN {Head(order)[2]} ELSE {})])

\* Lines 30-45: evalFile is called when the loop has gone through.
importResult(v, r) ==
    [status |-> r.status, err |-> r.err, checked |-> r.checked,
     requested |-> r.requested, evaluated |-> (r.status = "ok"),
     path |-> coerceToPath(v).text]

prim_import(v, order, st, buildOk, asserts) ==
    importResult(v, importLoop(order, st, buildOk, asserts,
                    [status |-> "ok", err |-> NoError, checked |-> {}, requested |-> {}]))

prim_pathExists_noCheck(v) ==
    [status |-> "ok", err |-> NoError, path |-> coerceToPath(v).text]

\* Lines 529-536 (prim_readFile, lines 562-569, has the same test).
prim_pathExists(v) ==
    IF coerceToPath(v).context # {}
    THEN [status |-> "error", err |-> EvalError("string cannot refer to other paths"),
          path |-> coerceToPath(v).text]
    ELSE [status |-> "ok", err |-> NoError, path |-> coerceToPath(v).text]

prim_readFile(v) ==
    IF coerceToPath(v).context # {}
    THEN [status |-> "error", err |-> EvalError("string cannot refer to other paths"),
          path |-> coerceToPath(v).text]
    ELSE [status |-> "ok", err |-> NoError, path |-> coerceToPath(v).text]

-----------------------------------------------------------------------------
(* Inputs *)

Opt(present, key, v) == IF present THEN (key :> v) ELSE [x \in {} |-> v]

\* String values an expression can hand to a primitive: the outPath and
\* drvPath attributes of a derivation made in this session, and storePath of
\* a valid derivation file.
SessionValues(st, res) ==
    {vString(r.outPath.text, r.outPath.context) : r \in res}
    \cup {vString(r.drvPath.text, r.drvPath.context) : r \in res}
    \cup {vString(p, {<<"", p>>}) : p \in DOMAIN st}

DepValues(st, res) == {vString(Lit("e1"), {})} \cup SessionValues(st, res)

ArgValues(st, res) == {vString(Lit("/tmp/f"), {})} \cup SessionValues(st, res)

MkAttrs(name, builder, system, outputHash, outputHashAlgo, mode, dep) ==
    Opt(name # "absent", "name", vString(Lit(name), {}))
    @@ Opt(builder # "absent", "builder", vString(Lit(builder), {}))
    @@ Opt(system # "absent", "system", vString(Lit(system), {}))
    @@ Opt(outputHash # "absent", "outputHash", vString(Lit(outputHash), {}))
    @@ Opt(outputHash # "absent", "outputHashAlgo", vString(Lit(outputHashAlgo), {}))
    @@ Opt(mode # "absent", "outputHashMode", vString(Lit(mode), {}))
    @@ ("src" :> dep)

\* Attribute sets of the session: the well-formed ones over every
\* dependency value, and every combination of defects over a literal.
AttrSets(st, res) ==
    {MkAttrs("foo", "b1", "s1", oh, "sha256", "absent", d) :
        oh \in {"absent", HexZero}, d \in DepValues(st, res)}

\* Attribute sets with attributes missing or malformed, alone and together.
DefectAttrSets ==
    {MkAttrs(n, b, s, oh, oha, m, vString(Lit("e1"), {})) :
        n \in {"absent", "foo", "foo.drv"}, b \in {"absent", "b1"}, s \in {"", "s1"},
        oh \in {"absent", HexZero, "abc"}, oha \in {"sha256", "bogus"},
        m \in {"absent", "bogus"}}

-----------------------------------------------------------------------------
(* The session *)

EmptyStore == [p \in {} |-> {}]

EmptyCache == [p \in {} |-> htUnknown]

Idle == [op |-> "idle"]

\* No value has been allocated and no expression evaluated.
EmptyHeap == <<>>

NoEvals == <<>>

Known == DOMAIN store \cup DOMAIN drvHashes

Init ==
    /\ store = EmptyStore
    /\ drvHashes = EmptyCache
    /\ readOnlyMode \in BOOLEAN
    /\ results = {}
    /\ last = Idle
    /\ heap = EmptyHeap
    /\ evals = NoEvals
    /\ haveWarned = FALSE
    /\ warnings = <<>>

\* What a call of the constructor leaves to observe.
observe(attrs, r, cache) ==
    IF r.status = "ok"
    THEN [op |-> "derivation", attrs |-> attrs, status |-> "ok", err |-> r.err,
          wrote |-> r.wrote, hashed |-> r.hashed, cacheBefore |-> cache,
          masked |-> r.masked, drv |-> r.drv,
          outPath |-> r.outPath, drvPath |-> r.drvPath, usedModulo |-> r.usedModulo,
          hMasked |-> r.hMasked, hFinal |-> r.hFinal, value |-> r.value]
    ELSE [op |-> "derivation", attrs |-> attrs, status |-> "error", err |-> r.err,
          wrote |-> r.wrote, hashed |-> r.hashed, cacheBefore |-> cache]

\* A call of the constructor with outcome r.
Construct(attrs, r) ==
    /\ last = Idle
    /\ store' = r.store
    /\ drvHashes' = r.cache
    /\ results' = IF r.status = "ok" THEN results \cup {r.value} ELSE results
    /\ last' = observe(attrs, r, drvHashes)
    /\ UNCHANGED <<readOnlyMode, heap, evals, haveWarned,
                   warnings>>

CallDerivation ==
    /\ last = Idle
    /\ \E attrs \in AttrSets(store, results) :
         \E r \in {derivationStrict(attrs, store, drvHashes, readOnlyMode)} :
            /\ r.status = "ok" =>
                   (r.drvPath \in Known \/ Cardinality(Known) < MaxDrvs)
            /\ Construct(attrs, r)

\* The primitive returns and the evaluator goes on.
Resume ==
    /\ last # Idle
    /\ last' = Idle
    /\ UNCHANGED <<store, drvHashes, readOnlyMode, results, heap, evals, haveWarned,
                   warnings>>

\* A fresh evaluator process over the same store: EvalState starts with an
\* empty drvHashes.
NewSession ==
    /\ last = Idle
    /\ drvHashes' = EmptyCache
    /\ results' = {}
    /\ readOnlyMode' \in BOOLEAN
    /\ haveWarned' = FALSE
    /\ warnings' = <<>>
    /\ UNCHANGED <<store, last, heap, evals>>

CallToString ==
    \E v \in ArgValues(store, results) :
        /\ last = Idle
        /\ last' = [op |-> "toString", arg |-> v, status |-> "ok",
                    value |-> prim_toString(v)]
        /\ UNCHANGED <<store, drvHashes, readOnlyMode, results, heap, evals, haveWarned,
                   warnings>>

Orders(S) == {o \in [1 .. Cardinality(S) -> S] : \A x \in S : \E n \in DOMAIN o : o[n] = x}

CallPathExists ==
    \E v \in ArgValues(store, results) :
        /\ last = Idle
        /\ last' = [op |-> "pathExists", arg |-> v,
                    status |-> prim_pathExists(v).status, err |-> prim_pathExists(v).err]
        /\ UNCHANGED <<store, drvHashes, readOnlyMode, results, heap, evals, haveWarned,
                   warnings>>

CallReadFile ==
    \E v \in ArgValues(store, results) :
        /\ last = Idle
        /\ last' = [op |-> "readFile", arg |-> v,
                    status |-> prim_readFile(v).status, err |-> prim_readFile(v).err]
        /\ UNCHANGED <<store, drvHashes, readOnlyMode, results, heap, evals, haveWarned,
                   warnings>>

Next ==
    CallDerivation \/ Resume \/ NewSession \/ CallToString
    \/ CallPathExists \/ CallReadFile

Spec == Init /\ [][Next]_vars

-----------------------------------------------------------------------------
(* import *)

\* Strings handed to import: those of the session and the concatenations of
\* two of them, whose context is the union of the two contexts.
concatStrings(v1, v2) ==
    vString(<<"cat", v1.text, v2.text>>, v1.context \cup v2.context)

ImportValues(st, res) ==
    ArgValues(st, res)
    \cup {concatStrings(v1, v2) : v1 \in SessionValues(st, res),
                                  v2 \in SessionValues(st, res)}

CallImport ==
    /\ last = Idle
    /\ \E v \in ImportValues(store, results) :
        \E order \in Orders(coerceToPath(v).context) :
          \E buildOk \in BOOLEAN, asserts \in BOOLEAN :
            \E r \in {prim_import(v, order, store, buildOk, asserts)} :
              /\ last' = [op |-> "import", arg |-> v, status |-> r.status,
                          err |-> r.err, checked |-> r.checked,
                          requested |-> r.requested, evaluated |-> r.evaluated]
              /\ UNCHANGED <<store, drvHashes, readOnlyMode, results, heap, evals, haveWarned,
                   warnings>>

NextImport ==
    CallDerivation \/ Resume \/ CallImport \/ CallPathExists \/ CallReadFile

SpecImport == Init /\ [][NextImport]_vars

-----------------------------------------------------------------------------
(* Values, thunks and the list primitives *)

\* The heap holds Value structs; a list's elements and the two sides of an
\* application are addresses of Values.  An expression is named by a pair.
MaxLen == 2

MaxCells == 8

NoExpr == <<"none", 0>>

mkValue(type, expr, left, right, elems, val) ==
    [type |-> type, expr |-> expr, left |-> left, right |-> right,
     elems |-> elems, val |-> val]

mkInt(k) == mkValue("int", NoExpr, 0, 0, <<>>, k)

mkThunk(expr) == mkValue("thunk", expr, 0, 0, <<>>, 0)

mkApp(left, right) == mkValue("app", NoExpr, left, right, <<>>, 0)

mkLambda == mkValue("lambda", NoExpr, 0, 0, <<>>, 0)

\* mkList(v, length): the list value and its fresh element array, which
\* follows the list value.
mkList(at, length) ==
    mkValue("list", NoExpr, 0, 0, [n \in 1..length |-> at + n], 0)

\* A list literal of n elements: each element is a thunk of its own.
listLiteral(h, a, n) ==
    [h EXCEPT ![a] = mkValue("list", NoExpr, 0, 0,
                             [i \in 1..n |-> Len(h) + i], 0)]
    \o [i \in 1..n |-> mkThunk(<<"elem", i>>)]

\* The state after an application has been reduced: the argument has been
\* forced where it lies (s) and the application is overwritten by its value.
applied(s, a, r) ==
    [heap |-> [s.heap EXCEPT ![a] = s.heap[r]],
     evals |-> Append(s.evals, <<"app", r>>)]

\* forceValue: a thunk is evaluated and overwritten in place, an application
\* (of the function x: x) forces its argument and takes its value; any other
\* value is left alone.  evals is the log of the expressions evaluated.
RECURSIVE forceValue(_, _, _)
forceValue(h, ev, a) ==
    IF h[a].type = "thunk"
    THEN [heap |-> IF h[a].expr[1] = "elem" THEN [h EXCEPT ![a] = mkInt(h[a].expr[2])]
                   ELSE IF h[a].expr[1] = "list" THEN listLiteral(h, a, h[a].expr[2])
                   ELSE [h EXCEPT ![a] = mkLambda],
          evals |-> Append(ev, h[a].expr)]
    ELSE IF h[a].type = "app"
    THEN applied(forceValue(h, ev, h[a].right), a, h[a].right)
    ELSE [heap |-> h, evals |-> ev]

listResult(status, err, s, v) ==
    [status |-> status, err |-> err, heap |-> s.heap, evals |-> s.evals, v |-> v]

\* prim_head after forceValue(args[0]->list.elems[0]): v is a copy of it.
headResult(s, a) ==
    listResult("ok", NoError,
               [heap |-> Append(s.heap, s.heap[s.heap[a].elems[1]]), evals |-> s.evals],
               Len(s.heap) + 1)

headForced_last(s, a) ==
    IF s.heap[a].elems = <<>>
    THEN listResult("error", Error("`head' called on an empty list"), s, 0)
    ELSE headResult(forceValue(s.heap, s.evals,
                               s.heap[a].elems[Len(s.heap[a].elems)]), a)

\* prim_head after forceList(*args[0]).
headForced(s, a) ==
    IF s.heap[a].elems = <<>>
    THEN listResult("error", Error("`head' called on an empty list"), s, 0)
    ELSE headResult(forceValue(s.heap, s.evals, s.heap[a].elems[1]), a)

prim_head(h, ev, a) == headForced(forceValue(h, ev, a), a)

\* prim_tail after forceList(*args[0]): v.list.elems[n] is assigned the Value
\* args[0]->list.elems[n + 1], a copy of the struct.
tailForced(s, a) ==
    IF s.heap[a].elems = <<>>
    THEN listResult("error", Error("`tail' called on an empty list"), s, 0)
    ELSE listResult("ok", NoError,
             [heap |-> s.heap
                       \o <<mkList(Len(s.heap) + 1, Len(s.heap[a].elems) - 1)>>
                       \o [n \in 1..(Len(s.heap[a].elems) - 1) |->
                               s.heap[s.heap[a].elems[n + 1]]],
              evals |-> s.evals],
             Len(s.heap) + 1)

prim_tail(h, ev, a) == tailForced(forceValue(h, ev, a), a)

\* prim_map after forceFunction(*args[0]) and forceList(*args[1]): each
\* element is the application of args[0] to the address of the original
\* element.
mapForced(s, f, a) ==
    listResult("ok", NoError,
        [heap |-> s.heap
                  \o <<mkList(Len(s.heap) + 1, Len(s.heap[a].elems))>>
                  \o [n \in 1..Len(s.heap[a].elems) |-> mkApp(f, s.heap[a].elems[n])],
         evals |-> s.evals],
        Len(s.heap) + 1)

forceList(s, a) == forceValue(s.heap, s.evals, a)

prim_map(h, ev, f, a) == mapForced(forceList(forceValue(h, ev, f), a), f, a)

\* The values a list primitive can be handed as a list, and as a function.
ListValues(h) ==
    {a \in DOMAIN h : h[a].type = "list"
                      \/ (h[a].type = "thunk" /\ h[a].expr[1] = "list")}

FunctionValues(h) ==
    {a \in DOMAIN h : h[a].type = "lambda"
                      \/ (h[a].type = "thunk" /\ h[a].expr[1] = "fun")}

\* A function and a list literal, both unevaluated.
InitList ==
    /\ store = EmptyStore
    /\ drvHashes = EmptyCache
    /\ readOnlyMode = FALSE
    /\ results = {}
    /\ last = Idle
    /\ \E n \in 0..MaxLen : heap = <<mkThunk(<<"fun", 0>>), mkThunk(<<"list", n>>)>>
    /\ evals = NoEvals
    /\ haveWarned = FALSE
    /\ warnings = <<>>

ListCall(op, f, a, r) ==
    /\ Len(r.heap) <= MaxCells
    /\ heap' = r.heap
    /\ evals' = r.evals
    /\ last' = [op |-> op, fun |-> f, arg |-> a, status |-> r.status, err |-> r.err,
                v |-> r.v, before |-> heap]
    /\ UNCHANGED <<store, drvHashes, readOnlyMode, results, haveWarned, warnings>>

CallHead ==
    \E a \in ListValues(heap) :
      \E r \in {prim_head(heap, evals, a)} : ListCall("head", 0, a, r)

CallTail ==
    \E a \in ListValues(heap) :
      \E r \in {prim_tail(heap, evals, a)} : ListCall("tail", 0, a, r)

CallMap ==
    \E f \in FunctionValues(heap), a \in ListValues(heap) :
      \E r \in {prim_map(heap, evals, f, a)} : ListCall("map", f, a, r)

\* The evaluator forces a value it holds.
ForceValue ==
    \E a \in DOMAIN heap :
      /\ heap[a].type \in {"thunk", "app"}
      /\ \E s \in {forceValue(heap, evals, a)} :
           ListCall("force", 0, a, listResult("ok", NoError, s, a))

NextList == CallHead \/ CallTail \/ CallMap \/ ForceValue

SpecList == InitList /\ [][NextList]_vars

-----------------------------------------------------------------------------
(* Attributes whose evaluation fails, and args that are no list *)

SrcPath == <<"src", "data">>

TypeError(msg) == [kind |-> "TypeError", msg |-> msg, prefixes |-> <<>>]

vLambda == [type |-> "lambda", text |-> Lit(""), context |-> {}, elems |-> <<>>]

\* flattenList of a value that is no list is the list of that value.
flattenList(v) == IF v.type = "list" THEN v ELSE vList(<<v>>)

flattenArgs(attrs) ==
    IF "args" \in DOMAIN attrs
    THEN [attrs EXCEPT !["args"] = flattenList(@)]
    ELSE attrs

\* evalStringNoCtx (line 291) wants a string with an empty context.
nameFails(attrs) ==
    attrs["name"].type # "string" \/ attrs["name"].context # {}

nameError(attrs) ==
    IF attrs["name"].type # "string"
    THEN TypeError("value is not a string")
    ELSE EvalError("the string is not allowed to refer to a store path")

\* coerceToString has no string for a function.
coercionFails(v) == v.type = "lambda"

\* The attributes at which the loop of lines 305-356 throws.
loopFailures(attrs) ==
    {k \in DOMAIN attrs \ {"args"} : coercionFails(attrs[k])}
    \cup (IF invalidHashMode(attrs) THEN {"outputHashMode"} ELSE {})

attrError(attrs, key) ==
    IF coercionFails(attrs[key])
    THEN TypeError("cannot coerce a function to a string")
    ELSE EvalError("invalid value for `outputHashMode' attribute")

\* warnOnce(haveWarned, msg): the message is printed while the flag is
\* unset, and the flag is set.
warnOnce(warned, log, msg) ==
    IF warned THEN [haveWarned |-> TRUE, warnings |-> log]
    ELSE [haveWarned |-> TRUE, warnings |-> Append(log, msg)]

ArgsWarning == "the `args' attribute should evaluate to a list"

attrsEvaluated_onePrefix(attrs, first, argsFirst, r0, st, cache) ==
    IF "name" \notin DOMAIN attrs
    THEN [r |-> r0, argsSeen |-> FALSE]
    ELSE IF nameFails(attrs)
    THEN [r |-> failed(addPrefix(nameError(attrs),
                           "while evaluating the derivation attribute `name'"),
                       st, cache),
          argsSeen |-> FALSE]
    ELSE IF loopFailures(attrs) # {}
    THEN [r |-> failed(addPrefix(attrError(attrs, first),
                                 "while evaluating the derivation attribute"),
                       st, cache),
          argsSeen |-> "args" \in DOMAIN attrs /\ argsFirst]
    ELSE [r |-> r0, argsSeen |-> "args" \in DOMAIN attrs]

\* Lines 282-356 around the call r0 for the attributes with args flattened:
\* the loop throws at `first', the first of its failing attributes in the
\* order of the attribute map, and has gone through args before it or not
\* (argsFirst).
attrsEvaluated(attrs, first, argsFirst, r0, st, cache) ==
    IF "name" \notin DOMAIN attrs
    THEN [r |-> r0, argsSeen |-> FALSE]
    ELSE IF nameFails(attrs)
    THEN [r |-> failed(addPrefix(nameError(attrs),
                           "while evaluating the derivation attribute `name'"),
                       st, cache),
          argsSeen |-> FALSE]
    ELSE IF loopFailures(attrs) # {}
    THEN [r |-> failed(addPrefix(addPrefix(attrError(attrs, first),
                                     "while evaluating the derivation attribute"),
                                 "while instantiating the derivation"), st, cache),
          argsSeen |-> "args" \in DOMAIN attrs /\ argsFirst]
    ELSE [r |-> r0, argsSeen |-> "args" \in DOMAIN attrs]

argsWarned_always(attrs, e, warned, log) ==
    IF e.argsSeen /\ attrs["args"].type # "list"
    THEN [haveWarned |-> TRUE, warnings |-> Append(log, ArgsWarning)]
    ELSE [haveWarned |-> warned, warnings |-> log]

\* Lines 319-324 as far as the warning goes.
argsWarned(attrs, e, warned, log) ==
    IF e.argsSeen /\ attrs["args"].type # "list"
    THEN warnOnce(warned, log, ArgsWarning)
    ELSE [haveWarned |-> warned, warnings |-> log]

WarnAttrSets ==
    {Opt(n # "absent", "name",
         vString(Lit("foo"), IF n = "ctx" THEN {<<"", SrcPath>>} ELSE {}))
       @@ ("builder" :> vString(Lit("b1"), {}))
       @@ ("system" :> vString(Lit("s1"), {}))
       @@ Opt(m # "absent", "outputHashMode", vString(Lit(m), {}))
       @@ Opt(a = "list", "args", vList(<<vString(Lit("-x"), {})>>))
       @@ Opt(a = "string", "args", vString(Lit("-x"), {}))
       @@ Opt(x = "string", "extra", vString(Lit("y"), {}))
       @@ Opt(x = "lambda", "extra", vLambda) :
        n \in {"absent", "foo", "ctx"}, m \in {"absent", "bogus"},
        a \in {"absent", "list", "string"}, x \in {"absent", "string", "lambda"}}

FirstFailures(attrs) ==
    IF "name" \in DOMAIN attrs /\ loopFailures(attrs) # {}
    THEN loopFailures(attrs) ELSE {"none"}

CallDerivationWarn ==
    /\ last = Idle
    /\ \E attrs \in WarnAttrSets :
       \E first \in FirstFailures(attrs), argsFirst \in BOOLEAN :
       \E r0 \in {derivationStrict(flattenArgs(attrs), store, drvHashes, readOnlyMode)} :
       \E e \in {attrsEvaluated(attrs, first, argsFirst, r0, store, drvHashes)} :
       \E w \in {argsWarned(attrs, e, haveWarned, warnings)} :
         /\ store' = e.r.store
         /\ drvHashes' = e.r.cache
         /\ results' = IF e.r.status = "ok" THEN results \cup {e.r.value} ELSE results
         /\ last' = [obs |-> observe(attrs, e.r, drvHashes), op |-> "derivation",
                     attrs |-> attrs, status |-> e.r.status, err |-> e.r.err,
                     argsSeen |-> e.argsSeen]
         /\ haveWarned' = w.haveWarned
         /\ warnings' = w.warnings
         /\ UNCHANGED <<readOnlyMode, heap, evals>>

NextWarn == CallDerivationWarn \/ Resume

SpecWarn == Init /\ [][NextWarn]_vars

-----------------------------------------------------------------------------
(* Calls with missing and malformed attributes *)

CallDerivationErr ==
    /\ last = Idle
    /\ \E attrs \in DefectAttrSets :
         \E r \in {derivationStrict(attrs, store, drvHashes, readOnlyMode)} :
            Construct(attrs, r)

NextErr == CallDerivationErr \/ Resume

SpecErr == Init /\ [][NextErr]_vars

-----------------------------------------------------------------------------
(* Hashing over a populated store *)

\* A store written by an earlier session: two fixed-output derivations that
\* differ in their builder only (f1, f2), and four derivations over them.
FixedAttrs(b) ==
    MkAttrs("foo", b, "s1", HexZero, "sha256", "absent", vString(Lit("e1"), {}))

OverAttrs(b, r) ==
    MkAttrs("foo", b, "s1", "absent", "sha256", "absent",
            vString(r.outPath, {<<"", r.drvPath>>}))

CtxSets(st) ==
    {c \in SUBSET ({<<"", p>> : p \in DOMAIN st} \cup {<<"", SrcPath>>}) :
        Cardinality(c) <= MaxCtx}

\* Strings whose text is a literal and whose context is a set of valid
\* paths (substring keeps the context of its argument).
AttrSetsHash(st) ==
    {MkAttrs("foo", b, s, oh, "sha256", "absent", vString(Lit("e1"), c)) :
        b \in {"b1", "b2"}, s \in {"s1", "s2"}, oh \in {"absent", HexZero},
        c \in CtxSets(st)}

\* The calls that wrote the store: the builder, and the earlier call whose
\* output the derivation depends on (0: none, its output is fixed).
BaseCalls ==
    <<<<"b1", 0>>, <<"b2", 0>>, <<"b1", 1>>, <<"b1", 2>>, <<"b2", 1>>, <<"b2", 2>>>>

BaseAttrs(call, runs) ==
    IF call[2] = 0 THEN FixedAttrs(call[1]) ELSE OverAttrs(call[1], runs[call[2]])

\* One more call of the constructor, on the store and the cache the call
\* before it left.
BaseRun(runs, call) ==
    Append(runs,
           derivationStrict(BaseAttrs(call, runs),
                            IF Len(runs) = 0 THEN EmptyStore ELSE runs[Len(runs)].store,
                            IF Len(runs) = 0 THEN EmptyCache ELSE runs[Len(runs)].cache,
                            FALSE))

RECURSIVE BaseRuns(_)
BaseRuns(n) == IF n = 0 THEN <<>> ELSE BaseRun(BaseRuns(n - 1), BaseCalls[n])

InitHash ==
    /\ store = BaseRuns(Len(BaseCalls))[Len(BaseCalls)].store
    /\ drvHashes = EmptyCache
    /\ readOnlyMode \in BOOLEAN
    /\ results = {}
    /\ last = Idle
    /\ heap = EmptyHeap
    /\ evals = NoEvals
    /\ haveWarned = FALSE
    /\ warnings = <<>>

CallDerivationHash ==
    /\ last = Idle
    /\ \E attrs \in AttrSetsHash(store) :
         \E r \in {derivationStrict(attrs, store, drvHashes, readOnlyMode)} :
            Construct(attrs, r)

NextHash == CallDerivationHash

SpecHash == InitHash /\ [][NextHash]_vars

-----------------------------------------------------------------------------
(* Attribute sets over a populated store *)

Md5HexZero == "00000000000000000000000000000000"

\* Fixed-output descriptions: the hash in hexadecimal or base 32, the mode
\* absent, flat or recursive, with and without args and a further attribute.
FixedOutAttrSets ==
    {MkAttrs(n, b, s, hh[1], hh[2], m, vString(Lit("e1"), {}))
       @@ Opt(a, "args", vList(<<vString(Lit("-x"), {})>>))
       @@ Opt(x, "extra", vString(Lit("y"), {})) :
        n \in {"foo", "bar"}, b \in {"b1", "b2"}, s \in {"s1", "s2"},
        hh \in {<<HexZero, "sha256">>, <<Base32Zero, "sha256">>, <<Md5HexZero, "md5">>},
        m \in {"absent", "flat", "recursive"}, a \in BOOLEAN, x \in BOOLEAN}

CallDerivationFixed ==
    /\ last = Idle
    /\ \E attrs \in FixedOutAttrSets :
         \E r \in {derivationStrict(attrs, store, drvHashes, readOnlyMode)} :
            Construct(attrs, r)

\* Contexts whose elements carry the prefixes "", "=" and "~".
MaxTagged == 2

TaggedRefs(st) ==
    {<<t, p>> : t \in {"", "=", "~"}, p \in DOMAIN st \cup {SrcPath}}

TaggedCtxSets(st) ==
    {c \in SUBSET TaggedRefs(st) : Cardinality(c) <= MaxTagged}

\* The path in the context of the element of args: a derivation that has
\* input derivations of its own.
ArgPath(st) == CHOOSE p \in DOMAIN st : DOMAIN st[p].inputDrvs # {}

AttrSetsCtx(st) ==
    {MkAttrs("foo", "b1", "s1", "absent", "sha256", "absent", vString(Lit("e1"), c))
       @@ Opt(a # {}, "args", vList(<<vString(Lit("-x"), a)>>)) :
        c \in TaggedCtxSets(st),
        a \in {{}} \cup {{<<t, ArgPath(st)>>} : t \in {"", "=", "~"}}}

CallDerivationCtx ==
    /\ last = Idle
    /\ \E attrs \in AttrSetsCtx(store) :
         \E r \in {derivationStrict(attrs, store, drvHashes, readOnlyMode)} :
            Construct(attrs, r)

NextAttrs == CallDerivationFixed \/ CallDerivationCtx

SpecAttrs == InitHash /\ [][NextAttrs]_vars

-----------------------------------------------------------------------------
(* Properties *)

\* A fixed-output derivation, in the words of the description: exactly one
\* output, named out, with a non-empty hash.
FixedOutputDrv(d) == DOMAIN d.outputs = {"out"} /\ d.outputs["out"].hash # ""

SameFixedIdentity(d1, d2) ==
    FixedOutputDrv(d1) /\ FixedOutputDrv(d2) /\ d1.outputs["out"] = d2.outputs["out"]

Constructed == last.op = "derivation" /\ last.status = "ok"

\* The hash of a stored derivation recomputed with an empty cache.
Recomputed(p) == hashDerivationModulo(store[p], EmptyCache, store)

\* The attribute set with the reference to p in the context of src replaced
\* by a reference to q.
ReplaceRef(attrs, p, q) ==
    [attrs EXCEPT !["src"].context = (@ \ {<<"", p>>}) \cup {<<"", q>>}]

Reconstructed(attrs) == derivationStrict(attrs, store, drvHashes, readOnlyMode)

\* C1: the hash of a fixed-output derivation is
\* sha256("fixed:out:" + hashAlgo + ":" + hash + ":" + path), computed without
\* a cache lookup or a load from the store, and it is the hash of every
\* stored derivation with the same (hashAlgo, hash, path), whatever its
\* builder, platform, environment and inputs.
C1_FixedOutputInsulation ==
    (Constructed /\ FixedOutputDrv(last.drv)) =>
        /\ last.hFinal.h =
               hashString(<<"fixed:out:", last.drv.outputs["out"].hashAlgo, ":",
                            last.drv.outputs["out"].hash, ":",
                            last.drv.outputs["out"].path>>)
        /\ last.hFinal.loads = {}
        /\ last.hFinal.lookups = {}
        /\ last.hFinal.cacheAfter = last.hFinal.cacheBefore
        /\ \A p \in DOMAIN store :
               SameFixedIdentity(store[p], last.drv) =>
                   LET r == hashDerivationModulo(store[p], drvHashes, store)
                   IN  r.h = last.hFinal.h /\ r.cache = drvHashes /\ r.loads = {}

C1_Witness ==
    /\ Constructed /\ FixedOutputDrv(last.drv)
    /\ \E p \in DOMAIN store :
           /\ SameFixedIdentity(store[p], last.drv)
           /\ store[p].builder # last.drv.builder
           /\ store[p].platform # last.drv.platform
           /\ store[p].inputDrvs # last.drv.inputDrvs
           /\ store[p].inputSrcs # last.drv.inputSrcs
           /\ store[p].env # last.drv.env

\* The fixed-output inputs of the last derivation and their stand-ins: stored
\* fixed-output derivations under another path with the same output.
FixedSwaps ==
    {pq \in (DOMAIN store) \X (DOMAIN store) :
        /\ pq[1] # pq[2]
        /\ <<"", pq[1]>> \in last.attrs["src"].context
        /\ SameFixedIdentity(store[pq[1]], store[pq[2]])}

\* C2: replacing a fixed-output input derivation of a non-fixed-output
\* derivation by one stored under another path with the same
\* (hashAlgo, hash, path) changes neither its hashDerivationModulo nor the
\* output path the constructor gives it.
C2_DownstreamInsulation ==
    (Constructed /\ ~FixedOutputDrv(last.drv)) =>
        \A pq \in FixedSwaps :
            LET r == Reconstructed(ReplaceRef(last.attrs, pq[1], pq[2]))
            IN  /\ r.status = "ok"
                /\ r.hMasked.h = last.hMasked.h
                /\ r.outPath = last.outPath

C2_Witness ==
    /\ Constructed /\ ~FixedOutputDrv(last.drv)
    /\ \E pq \in FixedSwaps :
           /\ store[pq[1]].builder # store[pq[2]].builder
           /\ pq[1] \in DOMAIN last.drv.inputDrvs
           /\ pq[2] \notin DOMAIN last.drv.inputDrvs
           /\ pq[2] \in DOMAIN Reconstructed(ReplaceRef(last.attrs, pq[1], pq[2])).drv.inputDrvs

\* The non-fixed-output inputs of the last derivation and the stored
\* non-fixed-output derivations with another hash.
ChangedInputs ==
    {pq \in (DOMAIN store) \X (DOMAIN store) :
        /\ <<"", pq[1]>> \in last.attrs["src"].context
        /\ ~FixedOutputDrv(store[pq[1]]) /\ ~FixedOutputDrv(store[pq[2]])
        /\ ~Recomputed(pq[1]).failed /\ ~Recomputed(pq[2]).failed
        /\ Recomputed(pq[1]).h # Recomputed(pq[2]).h}

Propagates(pq) ==
    LET r == Reconstructed(ReplaceRef(last.attrs, pq[1], pq[2]))
    IN  r.status = "ok" /\ r.hMasked.h # last.hMasked.h /\ r.outPath # last.outPath

\* C3 as stated: replacing a non-fixed-output input derivation by one with
\* another hashDerivationModulo always changes the hash and the output path
\* of the derivation.
C3_AsStated ==
    (Constructed /\ ~FixedOutputDrv(last.drv)) =>
        \A pq \in ChangedInputs : Propagates(pq)

\* C3: replacing a non-fixed-output input derivation U by one with another
\* hashDerivationModulo changes the hash and the output path of the
\* derivation, provided no other input derivation has the hash of U.
C3_InputHashPropagation ==
    (Constructed /\ ~FixedOutputDrv(last.drv)) =>
        \A pq \in ChangedInputs :
            (\A o \in DOMAIN last.drv.inputDrvs \ {pq[1]} :
                 Recomputed(o).h # Recomputed(pq[1]).h)
            => Propagates(pq)

C3_Witness ==
    /\ Constructed /\ ~FixedOutputDrv(last.drv)
    /\ Cardinality(DOMAIN last.drv.inputDrvs) >= 2
    /\ \E pq \in ChangedInputs :
           /\ \A o \in DOMAIN last.drv.inputDrvs \ {pq[1]} :
                  Recomputed(o).h # Recomputed(pq[1]).h
           /\ Propagates(pq)

\* C4: a hash held in drvHashes is the hash obtained by recomputing it from
\* the store with an empty cache, the hashes the constructor computed with
\* the cache are the recomputed ones, and a repeated call returns the same
\* hash (wherever the derivation files are there to be loaded).
C4_CacheTransparency ==
    /\ \A p \in DOMAIN drvHashes \cap DOMAIN store :
           (drvHashes[p] # htUnknown /\ ~Recomputed(p).failed)
           => drvHashes[p] = Recomputed(p).h
    /\ Constructed =>
           LET again == hashDerivationModulo(last.drv, drvHashes, store)
               fresh == hashDerivationModulo(last.drv, EmptyCache, store)
               freshMasked == hashDerivationModulo(last.masked, EmptyCache, store)
           IN  /\ ~again.failed /\ again.h = last.hFinal.h
               /\ ~fresh.failed => fresh.h = last.hFinal.h
               /\ (last.usedModulo /\ ~freshMasked.failed)
                  => freshMasked.h = last.hMasked.h

\* The constructor hashed over a cache hit, and the recomputation loads the
\* input from the store.
C4_Witness ==
    /\ Constructed /\ last.usedModulo
    /\ \E i \in last.hMasked.lookups :
           /\ i \notin last.hMasked.loads
           /\ i \in DOMAIN store
    /\ LET freshMasked == hashDerivationModulo(last.masked, EmptyCache, store)
       IN  ~freshMasked.failed /\ freshMasked.loads # {}

\* C5: within a session (every step but the start of a fresh evaluator) no
\* entry of drvHashes is removed and no known hash in it is replaced by
\* another value.
C5_CacheAppendOnly ==
    [][~NewSession =>
          \A p \in DOMAIN drvHashes :
              /\ p \in DOMAIN drvHashes'
              /\ drvHashes[p] # htUnknown => drvHashes'[p] = drvHashes[p]]_vars

\* The constructor stored the hash of a derivation whose path was in the
\* cache already.
C5_Witness ==
    /\ Constructed
    /\ last.drvPath \in DOMAIN last.cacheBefore
    /\ last.cacheBefore[last.drvPath] # htUnknown
    /\ last.hFinal.h = last.cacheBefore[last.drvPath]

\* C6 as stated: the context of outPath is the output path.
C6_AsStated ==
    Constructed =>
        /\ last.value.outPath.text = last.outPath
        /\ last.value.outPath.context = {<<"", last.outPath>>}

\* C6: on success the outPath attribute is a string whose text is the
\* computed output path and whose context is exactly the path of the
\* derivation file.
C6_OutPathContext ==
    Constructed =>
        /\ last.value.outPath.text = last.outPath
        /\ last.outPath = last.drv.outputs["out"].path
        /\ last.value.outPath.context = {<<"", last.drvPath>>}

C6_Witness == Constructed /\ last.outPath # NoPath /\ last.drvPath # last.outPath

\* C7: the string returned by toString carries the context of its argument.
C7_ToStringKeepsContext ==
    last.op = "toString" => last.value.context = coerceToString(last.arg).context

AttrOf(key) == IF key \in DOMAIN last.attrs THEN last.attrs[key].text[2] ELSE ""

KnownAlgoBytes == ("md5" :> 16) @@ ("sha1" :> 20) @@ ("sha256" :> 32)

BadOutputHash ==
    /\ AttrOf("outputHash") # ""
    /\ \/ AttrOf("outputHashAlgo") \notin DOMAIN KnownAlgoBytes
       \/ /\ AttrOf("outputHashAlgo") \in DOMAIN KnownAlgoBytes
          /\ Len(AttrOf("outputHash")) # 2 * KnownAlgoBytes[AttrOf("outputHashAlgo")]
          /\ Len(AttrOf("outputHash")) #
                 ((8 * KnownAlgoBytes[AttrOf("outputHashAlgo")] - 1) \div 5) + 1

\* C9: with a non-empty outputHash, an unknown outputHashAlgo or a hash of
\* the wrong length makes the constructor fail with an EvalError, and no
\* derivation is written.
C9_BadOutputHashIsEvalError ==
    (last.op = "derivation" /\ BadOutputHash) =>
        last.status = "error" /\ last.err.kind = "EvalError" /\ ~last.wrote

MissingMessages ==
    (IF "name" \notin DOMAIN last.attrs
     THEN {"required attribute `name' missing"} ELSE {})
    \cup (IF AttrOf("builder") = ""
          THEN {"required attribute `builder' missing"} ELSE {})
    \cup (IF AttrOf("system") = ""
          THEN {"required attribute `system' missing"} ELSE {})

NothingPersisted ==
    /\ last.status = "error"
    /\ ~last.wrote /\ ~last.hashed
    /\ drvHashes = last.cacheBefore

FixedKeyOf(attrs) ==
    <<"outputHashMode" \in DOMAIN attrs /\ attrs["outputHashMode"].text = Lit("recursive"),
      attrs["outputHashAlgo"].text,
      IF attrs["outputHash"].text = Lit(Base32Zero) /\ attrs["outputHashAlgo"].text = Lit("sha256")
      THEN Lit(HexZero) ELSE attrs["outputHash"].text,
      attrs["name"].text>>

\* C11: with a non-empty well-formed outputHash the output path is computed
\* without hashDerivationModulo, and every description with the same
\* recursive flag, algorithm, hash bytes and name gets the same output path,
\* whatever its builder, system, args and other attributes.
C11_FixedOutputPath ==
    (Constructed /\ AttrOf("outputHash") # "") =>
        /\ ~last.usedModulo
        /\ last.hMasked.lookups = {} /\ last.hMasked.loads = {}
        /\ \A other \in FixedOutAttrSets :
               FixedKeyOf(other) = FixedKeyOf(last.attrs) =>
                   /\ Reconstructed(other).status = "ok"
                   /\ Reconstructed(other).outPath = last.outPath

C11_Witness ==
    /\ Constructed /\ AttrOf("outputHash") = Base32Zero
    /\ \E other \in FixedOutAttrSets :
           /\ FixedKeyOf(other) = FixedKeyOf(last.attrs)
           /\ other["outputHash"] # last.attrs["outputHash"]
           /\ other["builder"] # last.attrs["builder"]
           /\ other["system"] # last.attrs["system"]
           /\ "args" \in DOMAIN other /\ "args" \notin DOMAIN last.attrs
           /\ "extra" \in DOMAIN other /\ "extra" \notin DOMAIN last.attrs
           /\ Reconstructed(other).drv # last.drv
           /\ Reconstructed(other).outPath = last.outPath

-----------------------------------------------------------------------------
(* import *)

\* The path a context element names, without its prefix, is in the store.
RefNamesValidPath(ref) == ref[2] \in DOMAIN store \/ ref[2][1] = "src"

\* C12: for every path in the context of import's argument, import fails with
\* an EvalError, without evaluating the file, if the path is not valid in the
\* store; for every context path that is a derivation the build is requested
\* and done before evalFile; evalFile is never reached if a build fails.
C12_ImportOrdering ==
    last.op = "import" =>
        /\ \A ref \in last.arg.context :
              ~RefNamesValidPath(ref) =>
                  /\ last.status = "error"
                  /\ last.err.kind = "EvalError"
                  /\ ~last.evaluated
        /\ last.evaluated =>
              \A ref \in last.arg.context :
                  isDerivation(ref[2]) => ref[2] \in last.requested
        /\ (last.status = "error" /\ last.err.msg = "build failed") => ~last.evaluated

\* C20: importing a string built from a result's outPath or drvPath attribute
\* never reaches an assertion failure.
C20_AssertionHolds ==
    (last.op = "import" /\ last.arg.context # {}) => last.status # "abort"

-----------------------------------------------------------------------------
(* Lists *)

\* The value at x is as the call found it; a value the call allocated is an
\* unevaluated thunk.
Untouched(x) ==
    IF x \in DOMAIN last.before THEN heap[x] = last.before[x]
    ELSE heap[x].type = "thunk"

ListCallOk(op) == last.op = op /\ last.status = "ok"

\* C13: head on a non-empty list forces only element 0 and leaves every other
\* element as it was; tail forces no element; map forces its function and its
\* list but no element, and each element of its result is an unevaluated
\* application of the function to the corresponding original element.
C13_Laziness ==
    /\ ListCallOk("head") =>
         /\ heap[heap[last.arg].elems[1]].type \notin {"thunk", "app"}
         /\ \A n \in 2..Len(heap[last.arg].elems) : Untouched(heap[last.arg].elems[n])
    /\ ListCallOk("tail") =>
         /\ \A n \in DOMAIN heap[last.arg].elems : Untouched(heap[last.arg].elems[n])
         /\ \A n \in DOMAIN heap[last.v].elems :
              heap[heap[last.v].elems[n]].type = heap[heap[last.arg].elems[n + 1]].type
    /\ ListCallOk("map") =>
         /\ heap[last.fun].type = "lambda"
         /\ heap[last.arg].type = "list"
         /\ Len(heap[last.v].elems) = Len(heap[last.arg].elems)
         /\ \A n \in DOMAIN heap[last.arg].elems :
              /\ Untouched(heap[last.arg].elems[n])
              /\ heap[heap[last.v].elems[n]].type = "app"
              /\ heap[heap[last.v].elems[n]].left = last.fun
              /\ heap[heap[last.v].elems[n]].right = heap[last.arg].elems[n]

\* head, tail and map have each been called on a list of two elements whose
\* second element was unevaluated.
C13_Witness ==
    /\ last.op \in {"head", "tail", "map"}
    /\ last.status = "ok"
    /\ Len(heap[last.arg].elems) = 2
    /\ heap[heap[last.arg].elems[2]].type = "thunk"
    /\ \E a \in DOMAIN heap : heap[a].type = "app"
    /\ Len(heap) = MaxCells

Evaluations(expr) == Cardinality({n \in DOMAIN evals : evals[n] = expr})

\* C14: every list-element thunk is evaluated at most once, whatever head,
\* tail and map calls and forcings take place.
C14_SingleEvaluation ==
    \A n \in DOMAIN evals : evals[n][1] = "elem" => Evaluations(evals[n]) <= 1

-----------------------------------------------------------------------------
(* The cache after a successful call *)

\* The derivation files returned by the constructor calls of the session.
ReturnedDrvPaths == {v.drvPath.text : v \in results}

\* C15: after a successful call with derivation file P, drvHashes[P] is known
\* and is hashDerivationModulo of the final derivation; a call whose
\* derivation inputs are all paths returned by calls of the session never
\* reads a derivation file while hashing.
C15_CachePopulated ==
    Constructed =>
        /\ last.drvPath \in DOMAIN drvHashes
        /\ drvHashes[last.drvPath] # htUnknown
        /\ LET final == hashDerivationModulo(last.drv, last.cacheBefore, store)
           IN  ~final.failed /\ drvHashes[last.drvPath] = final.h
        /\ DOMAIN last.drv.inputDrvs \subseteq ReturnedDrvPaths
           => (last.hMasked.loads = {} /\ last.hFinal.loads = {})

\* A read-only session has built a derivation on one it returned earlier.
C15_Witness ==
    /\ Constructed
    /\ readOnlyMode
    /\ last.usedModulo
    /\ DOMAIN last.drv.inputDrvs # {}
    /\ DOMAIN last.drv.inputDrvs \subseteq ReturnedDrvPaths
    /\ DOMAIN last.drv.inputDrvs \cap DOMAIN store = {}
    /\ last.hMasked.lookups # {}

-----------------------------------------------------------------------------
(* The partition of the context *)

\* The context of the call: that of the values of the environment attributes
\* and of the elements of args.
CallContext ==
    UNION ({last.attrs[k].context : k \in DOMAIN last.attrs \ {"args"}}
           \cup (IF "args" \in DOMAIN last.attrs
                 THEN {last.attrs["args"].elems[n].context :
                          n \in DOMAIN last.attrs["args"].elems}
                 ELSE {}))

Tagged(t) == {r[2] : r \in {q \in CallContext : q[1] = t}}

\* The store closure of the paths referenced with "=".
PathOnlyClosure == UNION {computeFSClosure(store, p) : p \in Tagged("=")}

Recorded == last.drv.inputSrcs \cup DOMAIN last.drv.inputDrvs

RecordedAsDrv(p) ==
    p \in DOMAIN last.drv.inputDrvs /\ last.drv.inputDrvs[p] = {"out"}

\* C16: every path of the context, its tag stripped, is in inputSrcs or a
\* key of inputDrvs, and every member of inputSrcs and key of inputDrvs is
\* such a path or lies in the store closure of a path referenced with "=".
C16_DependencyCompleteness ==
    Constructed =>
        /\ {r[2] : r \in CallContext} \subseteq Recorded
        /\ Recorded \subseteq {r[2] : r \in CallContext} \cup PathOnlyClosure

\* A "=" reference with a closure beyond itself, a "~" reference and an
\* element of args with a context.
C16_Witness ==
    /\ Constructed
    /\ \E p \in Tagged("=") : computeFSClosure(store, p) \ {r[2] : r \in CallContext} # {}
    /\ Tagged("~") # {}
    /\ "args" \in DOMAIN last.attrs
    /\ last.attrs["args"].elems[1].context # {}

\* C17, as stated: inputSrcs and the keys of inputDrvs are disjoint; a
\* derivation of the closure of a "=" reference is in inputDrvs with {"out"}
\* and not in inputSrcs, a plain reference to a derivation is only in
\* inputDrvs, a plain reference to another path is only in inputSrcs.
C17_AsStated ==
    Constructed =>
        /\ last.drv.inputSrcs \cap DOMAIN last.drv.inputDrvs = {}
        /\ \A p \in PathOnlyClosure :
              isDerivation(p) => (RecordedAsDrv(p) /\ p \notin last.drv.inputSrcs)
        /\ \A p \in Tagged("") :
              IF isDerivation(p)
              THEN RecordedAsDrv(p) /\ p \notin last.drv.inputSrcs
              ELSE p \in last.drv.inputSrcs /\ p \notin DOMAIN last.drv.inputDrvs

\* C17: a derivation of the closure of a "=" reference is in inputDrvs with
\* {"out"} and also in inputSrcs; a plain reference to a derivation is in
\* inputDrvs with {"out"}, and in inputSrcs only if it lies in such a closure
\* or is referenced with "~" as well; a plain reference to another path is
\* only in inputSrcs; without "=" and "~" references the two are disjoint.
C17_Partition ==
    Constructed =>
        /\ \A p \in PathOnlyClosure :
              isDerivation(p) => (RecordedAsDrv(p) /\ p \in last.drv.inputSrcs)
        /\ \A p \in Tagged("") :
              IF isDerivation(p)
              THEN /\ RecordedAsDrv(p)
                   /\ p \in last.drv.inputSrcs
                      <=> (p \in PathOnlyClosure \/ p \in Tagged("~"))
              ELSE p \in last.drv.inputSrcs /\ p \notin DOMAIN last.drv.inputDrvs
        /\ (Tagged("=") = {} /\ Tagged("~") = {})
           => last.drv.inputSrcs \cap DOMAIN last.drv.inputDrvs = {}

\* A "=" reference whose closure holds another derivation, beside a plain
\* reference to a derivation outside that closure.
C17_Witness ==
    /\ Constructed
    /\ \E p \in Tagged("=") :
          \E q \in computeFSClosure(store, p) : q # p /\ isDerivation(q)
    /\ \E p \in Tagged("") : isDerivation(p) /\ p \notin PathOnlyClosure

-----------------------------------------------------------------------------
(* args that are no list; failures of attributes *)

NonListArgs(attrs) == "args" \in DOMAIN attrs /\ attrs["args"].type # "list"

\* Nothing but args is unusual about the attributes.
OnlyArgsUnusual(attrs) ==
    /\ "name" \in DOMAIN attrs /\ attrs["name"].context = {}
    /\ "outputHashMode" \notin DOMAIN attrs
    /\ \A k \in DOMAIN attrs : attrs[k].type # "lambda"

\* C18: a call whose args attribute evaluates to a value that is no list does
\* not fail for that reason and uses the flattened value as its args; the
\* warning is printed at most once in a process, by the first call in which
\* args evaluates to such a value; args never appears in env.
C18_ArgsFallback ==
    /\ [](/\ Len(warnings) <= 1
          /\ (last.op = "derivation" /\ last.status = "ok")
             => "args" \notin DOMAIN last.obs.drv.env
          /\ (last.op = "derivation" /\ NonListArgs(last.attrs)) =>
                /\ OnlyArgsUnusual(last.attrs) => last.status = "ok"
                /\ last.status = "ok"
                   => last.obs.drv.args = <<last.attrs["args"].text>>
                /\ last.argsSeen => warnings = <<ArgsWarning>>)
    /\ [][warnings' # warnings =>
            /\ last'.op = "derivation"
            /\ NonListArgs(last'.attrs)
            /\ last'.argsSeen]_vars

\* A call with args that is no list has succeeded in a process that had
\* printed the warning before and had built the same derivation.
C18_Witness ==
    /\ last.op = "derivation" /\ last.status = "ok"
    /\ NonListArgs(last.attrs)
    /\ warnings = <<ArgsWarning>>
    /\ last.obs.drvPath \in DOMAIN last.obs.cacheBefore

NameEvaluationFails(attrs) == "name" \in DOMAIN attrs /\ attrs["name"].context # {}

LoopEvaluationFails(attrs) ==
    /\ "name" \in DOMAIN attrs
    /\ \/ \E k \in DOMAIN attrs : attrs[k].type = "lambda"
       \/ /\ "outputHashMode" \in DOMAIN attrs
          /\ attrs["outputHashMode"].text \notin {Lit("recursive"), Lit("flat")}

AttributeFrames ==
    {"while evaluating the derivation attribute",
     "while evaluating the derivation attribute `name'"}

DerivationFrame == "while instantiating the derivation"

\* The failures as they are raised, before any prefix is added.
RaisedByName ==
    {<<"EvalError", "the string is not allowed to refer to a store path">>}

RaisedInLoop(attrs) ==
    {<<"TypeError", "cannot coerce a function to a string">> :
        k \in {q \in DOMAIN attrs : attrs[q].type = "lambda"}}
    \cup {<<"EvalError", "invalid value for `outputHashMode' attribute">> :
        k \in {q \in DOMAIN attrs : q = "outputHashMode"}}

\* C19, as stated: every failure of the evaluation of an attribute, of name
\* too, carries exactly two prefixes, the attribute frame added first and the
\* derivation frame second, and keeps its kind and message.
C19_AsStated ==
    (last.op = "derivation"
     /\ (NameEvaluationFails(last.attrs) \/ LoopEvaluationFails(last.attrs))) =>
        /\ last.status = "error"
        /\ Len(last.err.prefixes) = 2
        /\ last.err.prefixes[1] = DerivationFrame
        /\ last.err.prefixes[2] \in AttributeFrames
        /\ <<last.err.kind, last.err.msg>>
              \in RaisedByName \cup RaisedInLoop(last.attrs)

\* C19: a failure raised in the attribute loop carries exactly two prefixes,
\* the attribute frame added first and the derivation frame second; a failure
\* of the evaluation of name ahead of the loop carries the attribute frame
\* only; kind and message are kept.
C19_TwoPrefixes ==
    /\ (last.op = "derivation" /\ NameEvaluationFails(last.attrs)) =>
          /\ last.status = "error"
          /\ last.err.prefixes = <<"while evaluating the derivation attribute `name'">>
          /\ <<last.err.kind, last.err.msg>> \in RaisedByName
    /\ (last.op = "derivation" /\ ~NameEvaluationFails(last.attrs)
        /\ LoopEvaluationFails(last.attrs)) =>
          /\ last.status = "error"
          /\ last.err.prefixes =
                 <<DerivationFrame, "while evaluating the derivation attribute">>
          /\ <<last.err.kind, last.err.msg>> \in RaisedInLoop(last.attrs)

\* A function among the attributes has made the loop fail after args.
C19_Witness ==
    /\ last.op = "derivation"
    /\ last.err.kind = "TypeError"
    /\ Len(last.err.prefixes) = 2
    /\ "outputHashMode" \in DOMAIN last.attrs
    /\ last.argsSeen

====
